---- MODULE Spec2Model ----
(***************************************************************************)
(* A model of src/ws3000mqtt.py: the WS3000 station object (USB session,   *)
(* retry loop, frame extraction, record decoding), the poll generator and  *)
(* the module-level discovery probe, run by concurrent client threads.     *)
(*                                                                         *)
(* Python values are modelled as follows.  A byte buffer is a sequence of  *)
(* integers 0..255, Python index i being TLA+ index i+1.  An optional      *)
(* value is a sequence of length 0 (None) or 1 (the value).                *)
(***************************************************************************)
EXTENDS Integers, Sequences, FiniteSets, TLC

\* ------------------------------------------------------------------------
\* Bounds of the model
\* ------------------------------------------------------------------------

\* _read_usb inputs: longest explicit prefix of a generated buffer
MaxPrefix == 3
\* largest max_tries drawn at construction
MaxTries == 2
\* largest wait_before_retry (seconds) drawn at construction
MaxWait == 1
\* largest loop_interval (seconds) drawn at construction
MaxInterval == 2
\* longest time (seconds) the consumer keeps the generator suspended
MaxDelay == 1
\* turns of the loop of syncTimeFn that are followed
MaxCycles == 2

\* ------------------------------------------------------------------------
\* Program constants
\* ------------------------------------------------------------------------

LeadByte == 123
Term0 == 64
Term1 == 125
PacketLen == 64
DefaultPacketSize == 64
SensorLen == 24
ConfigLen == 27
UnitIndex == 7
SensorValuesCmd == 3
DeviceConfigCmd == 4
SyncTimeCmd == 48
HumidityMax == 100

\* ------------------------------------------------------------------------
\* Python helpers
\* ------------------------------------------------------------------------

NoneVal == << >>
Some(x) == << x >>
IsNone(o) == Len(o) = 0
Get(o) == o[1]

\* buf[i]
At(buf, i) == buf[i + 1]
\* buf[a:b] for 0 <= a, b <= len(buf)
Slice(buf, a, b) == IF b <= a THEN << >> ELSE SubSeq(buf, a + 1, b)

\* n copies of byte b
RECURSIVE Repeat(_, _)
Repeat(b, n) == IF n <= 0 THEN << >> ELSE << b >> \o Repeat(b, n - 1)

\* ------------------------------------------------------------------------
\* WS3000._read_usb (the part after device.read returned buf)
\* ------------------------------------------------------------------------

\* for i in range(0, len(buf) - 1): first i with buf[i], buf[i+1] = 0x40, 0x7d;
\* -1 stands for idx = None
RECURSIVE ScanTerminator(_, _)
ScanTerminator(buf, i) ==
    IF i >= Len(buf) - 1 THEN -1
    ELSE IF At(buf, i) = Term0 /\ At(buf, i + 1) = Term1 THEN i
    ELSE ScanTerminator(buf, i + 1)

\* mutant: the slice keeps the first terminator byte (buf[1: idx + 1])
_read_usb_inclusive(buf) ==
    IF Len(buf) = 0 THEN NoneVal
    ELSE IF Len(buf) # PacketLen THEN NoneVal
    ELSE IF At(buf, 0) # LeadByte THEN NoneVal
    ELSE LET idx == ScanTerminator(buf, 0)
         IN  IF idx = -1 THEN NoneVal ELSE Some(Slice(buf, 1, idx + 1))

\* mutant: the frame runs up to the last terminator pair of the buffer
_read_usb_greedy(buf) ==
    IF Len(buf) = 0 THEN NoneVal
    ELSE IF Len(buf) # PacketLen THEN NoneVal
    ELSE IF At(buf, 0) # LeadByte THEN NoneVal
    ELSE LET pairs == { i \in 0 .. Len(buf) - 2 :
                          At(buf, i) = Term0 /\ At(buf, i + 1) = Term1 }
         IN  IF pairs = {} THEN NoneVal
             ELSE Some(Slice(buf, 1, CHOOSE i \in pairs : \A j \in pairs : j <= i))

\* the frame of a buffer returned by device.read, or None
_read_usb(buf) ==
    IF Len(buf) = 0 THEN NoneVal
    ELSE IF Len(buf) # PacketLen THEN NoneVal
    ELSE IF At(buf, 0) # LeadByte THEN NoneVal
    ELSE LET idx == ScanTerminator(buf, 0)
         IN  IF idx = -1 THEN NoneVal ELSE Some(Slice(buf, 1, idx))

\* ------------------------------------------------------------------------
\* Python floats (IEEE 754 binary64, round to nearest, ties to even)
\* ------------------------------------------------------------------------

\* A natural number of any size is the sequence of its digits in base 4096,
\* lowest digit first, without high zeros; << >> is zero.
Base == 4096
DigitBits == 12
MantissaBits == 53

RECURSIVE Pow2(_)
Pow2(k) == IF k = 0 THEN 1 ELSE 2 * Pow2(k - 1)

RECURSIVE Trim(_)
Trim(a) ==
    IF a = << >> THEN a
    ELSE IF a[Len(a)] = 0 THEN Trim(SubSeq(a, 1, Len(a) - 1)) ELSE a

RECURSIVE FromInt(_)
FromInt(n) == IF n = 0 THEN << >> ELSE << n % Base >> \o FromInt(n \div Base)

Digit(a, i) == IF i <= Len(a) THEN a[i] ELSE 0

\* a * s + c for a digit s and a carry c, from digit i on
RECURSIVE MulSmall(_, _, _, _)
MulSmall(a, s, c, i) ==
    IF i > Len(a) THEN FromInt(c)
    ELSE << (a[i] * s + c) % Base >> \o MulSmall(a, s, (a[i] * s + c) \div Base, i + 1)

\* a + b + c from digit i on
RECURSIVE AddCarry(_, _, _, _)
AddCarry(a, b, c, i) ==
    IF i > Len(a) /\ i > Len(b) THEN FromInt(c)
    ELSE << (Digit(a, i) + Digit(b, i) + c) % Base >> \o
         AddCarry(a, b, (Digit(a, i) + Digit(b, i) + c) \div Base, i + 1)
BigAdd(a, b) == AddCarry(a, b, 0, 1)

\* a - b - c from digit i on, for a >= b + c
RECURSIVE SubBorrow(_, _, _, _)
SubBorrow(a, b, c, i) ==
    IF i > Len(a) THEN << >>
    ELSE << (a[i] - Digit(b, i) - c + Base) % Base >> \o
         SubBorrow(a, b, IF a[i] - Digit(b, i) - c < 0 THEN 1 ELSE 0, i + 1)
BigSub(a, b) == Trim(SubBorrow(a, b, 0, 1))

\* -1, 0 or 1 as a < b, a = b or a > b
RECURSIVE CmpFrom(_, _, _)
CmpFrom(a, b, i) ==
    IF i = 0 THEN 0
    ELSE IF a[i] < b[i] THEN -1
    ELSE IF a[i] > b[i] THEN 1
    ELSE CmpFrom(a, b, i - 1)
BigCmp(a, b) ==
    IF Len(a) < Len(b) THEN -1
    ELSE IF Len(a) > Len(b) THEN 1
    ELSE CmpFrom(a, b, Len(a))

\* a * b, the digits of b from digit i on
RECURSIVE MulFrom(_, _, _)
MulFrom(a, b, i) ==
    IF i > Len(b) THEN << >>
    ELSE BigAdd(MulSmall(a, b[i], 0, 1), << 0 >> \o MulFrom(a, b, i + 1))
BigMul(a, b) == Trim(MulFrom(a, b, 1))

\* the quotient of a by a divisor d <= Base, from the highest digit down to
\* digit i, and the remainder
WithDigit(low, digit) == << low[1] \o << digit >>, low[2] >>
RECURSIVE DivFrom(_, _, _, _)
DivFrom(a, d, i, r) ==
    IF i = 0 THEN << << >>, r >>
    ELSE WithDigit(DivFrom(a, d, i - 1, (r * Base + a[i]) % d), (r * Base + a[i]) \div d)
DivSmall(a, d) == DivFrom(a, d, Len(a), 0)

ShiftLeft(a, k) ==
    IF a = << >> THEN a
    ELSE Repeat(0, k \div DigitBits) \o MulSmall(a, Pow2(k % DigitBits), 0, 1)
ShiftRight(a, k) ==
    IF k \div DigitBits >= Len(a) THEN << >>
    ELSE Trim(DivSmall(SubSeq(a, (k \div DigitBits) + 1, Len(a)),
                       Pow2(k % DigitBits))[1])

RECURSIVE IntBits(_)
IntBits(n) == IF n = 0 THEN 0 ELSE 1 + IntBits(n \div 2)
BitLen(a) ==
    IF a = << >> THEN 0 ELSE DigitBits * (Len(a) - 1) + IntBits(a[Len(a)])
\* bit k of a
Bit(a, k) == (Digit(a, (k \div DigitBits) + 1) \div Pow2(k % DigitBits)) % 2

\* a / 2^k for k >= 1, rounded to the nearest integer, ties to even: the
\* floor of (a + 2^(k-1) - 1 + the lowest bit of the quotient) / 2^k
HalfLess(half, bit) == IF bit = 1 THEN half ELSE BigSub(half, << 1 >>)
RoundShift(a, k) ==
    ShiftRight(BigAdd(a, HalfLess(ShiftLeft(<< 1 >>, k - 1), Bit(a, k))), k)

\* A float is zero, or (-1)^neg * man * 2^exp with a mantissa of 53 bits.
\* The values that occur here are far from overflow and from subnormals.
Zero == [ neg |-> FALSE, man |-> << >>, exp |-> 0 ]
TwoTo52 == << 0, 0, 0, 0, 16 >>
TwoTo53 == << 0, 0, 0, 0, 32 >>
\* a rounded mantissa m of 53 bits, or 2^53 when the rounding carried
Carried(neg, m, e) ==
    IF m = TwoTo53 THEN [ neg |-> neg, man |-> TwoTo52, exp |-> e + 1 ]
    ELSE [ neg |-> neg, man |-> m, exp |-> e ]
\* the float nearest to (-1)^neg * a * 2^e, for a of n bits
RoundBits(neg, a, e, n) ==
    IF n = 0 THEN Zero
    ELSE IF n <= MantissaBits
    THEN [ neg |-> neg, man |-> ShiftLeft(a, MantissaBits - n),
           exp |-> e - (MantissaBits - n) ]
    ELSE Carried(neg, RoundShift(a, n - MantissaBits), e + (n - MantissaBits))
Round(neg, a, e) == RoundBits(neg, a, e, BitLen(a))

\* the float nearest to (-1)^neg * num / den for integers 0 <= num and
\* 0 < den <= Base: the quotient to 64 binary places, and one more bit that
\* says whether anything was left
GuardBits == 64
Sticky(d) == MulSmall(Trim(d[1]), 2, IF d[2] = 0 THEN 0 ELSE 1, 1)
Nearest(neg, num, den) ==
    Round(neg, Sticky(DivSmall(ShiftLeft(FromInt(num), GuardBits), den)),
          -(GuardBits + 1))

\* x / y for an integer x and the float y = den
FloatDivInt(n, den) == Nearest(n < 0, IF n < 0 THEN -n ELSE n, den)

FloatMul(x, y) ==
    IF x.man = << >> \/ y.man = << >> THEN Zero
    ELSE Round(x.neg # y.neg, BigMul(x.man, y.man), x.exp + y.exp)

\* lo + hi for two floats that are not zero, lo.exp <= hi.exp, a being the
\* mantissa of hi brought to the exponent of lo
AddAligned(lo, hi, a, c) ==
    Round(IF lo.neg = hi.neg \/ c > 0 THEN hi.neg ELSE lo.neg,
          IF lo.neg = hi.neg THEN BigAdd(a, lo.man)
          ELSE BigSub(IF c > 0 THEN a ELSE lo.man, IF c > 0 THEN lo.man ELSE a),
          lo.exp)
AddOrdered(lo, hi, a) == AddAligned(lo, hi, a, BigCmp(a, lo.man))
FloatAdd(x, y) ==
    IF x.man = << >> THEN y
    ELSE IF y.man = << >> THEN x
    ELSE AddOrdered(IF x.exp <= y.exp THEN x ELSE y, IF x.exp <= y.exp THEN y ELSE x,
                    ShiftLeft(IF x.exp <= y.exp THEN y.man ELSE x.man,
                              IF x.exp <= y.exp THEN y.exp - x.exp ELSE x.exp - y.exp))

\* the literals 1.8 (0x1.ccccccccccccdp+0) and 32 of _raw_to_data
Float1_8 == [ neg |-> FALSE, man |-> << 3277, 3276, 3276, 3276, 28 >>, exp |-> -52 ]
Float32 == [ neg |-> FALSE, man |-> TwoTo52, exp |-> -47 ]

\* ------------------------------------------------------------------------
\* WS3000._raw_to_data
\* ------------------------------------------------------------------------

\* A dict is a function from keys to values.  The keys are <<"units", 0>>,
\* <<"type", 0>>, <<"temperature_CH", n>> and <<"humidity_CH", n>>.  A
\* temperature is a float.
EmptyDict == [k \in {} |-> 0]
HasKey(d, k) == k \in DOMAIN d

\* struct.unpack(">h", hi lo)
SignedBE16(hi, lo) ==
    LET v == hi * 256 + lo IN IF v >= 32768 THEN v - 65536 ELSE v

\* channels are numbered from 1, triplet ch starts at index 3 * (ch - 1)
Triplet(buf, ch) == Slice(buf, 3 * (ch - 1), 3 * ch)
\* mutant: the two temperature bytes alone mark a channel as absent
IsSentinel_temperatureOnly(tr) == tr[1] = 127 /\ tr[2] = 255
\* mutant: a humidity byte of 0xff also marks a channel as absent
IsSentinel_orHumidityFF(tr) == tr = << 127, 255, 255 >> \/ tr[3] = 255
IsSentinel(tr) == tr = << 127, 255, 255 >>
ChannelsOf(buf) == 1 .. (Len(buf) \div 3)

\* sensordata[0] / 10.0, then * 1.8 + 32 when the unit is Fahrenheit
Fahrenheit(celsius) == FloatAdd(FloatMul(celsius, Float1_8), Float32)
Temperature(celsius, units) ==
    IF units = "Fahrenheit" THEN Fahrenheit(celsius) ELSE celsius
TemperatureOf(tr, units) ==
    Temperature(FloatDivInt(SignedBE16(tr[1], tr[2]), 10), units)

\* temperature bytes to decode
TempBytes ==
    { << 127, 255 >>, << 127, 254 >>, << 255, 241 >>, << 0, 235 >>,
      << 0, 0 >>, << 128, 0 >>, << 255, 255 >> }

\* mutant: the humidity key without the channel infix
HumidityKey_plain(ch) == << "humidity", ch >>
\* f'temperature_CH{ch}' and f'humidity_CH{ch}'
TemperatureKey(ch) == << "temperature_CH", ch >>
HumidityKey(ch) == << "humidity_CH", ch >>

SensorRecord(buf, units) ==
    LET present == { ch \in ChannelsOf(buf) : ~IsSentinel(Triplet(buf, ch)) }
        humid   == { ch \in present : Triplet(buf, ch)[3] <= HumidityMax }
        keys    == { << "units", 0 >> }
                   \cup { TemperatureKey(ch) : ch \in present }
                   \cup { HumidityKey(ch) : ch \in humid }
    IN  [ k \in keys |->
            IF k[1] = "units" THEN units
            ELSE IF k[1] = "temperature_CH"
                 THEN TemperatureOf(Triplet(buf, k[2]), units)
                 ELSE Triplet(buf, k[2])[3] ]

ConfigRecord(buf) ==
    [ k \in { << "type", 0 >>, << "units", 0 >> } |->
        IF k[1] = "type" THEN "device_configuration"
        ELSE IF At(buf, UnitIndex) = 1 THEN "F" ELSE "C" ]

\* The outcome of _raw_to_data(raw, hex_command) with self.units = units:
\* [exc |-> TRUE] when it raises, else [exc |-> FALSE, rec |-> the dict].
\* raw is an optional buffer.
Raised == [ exc |-> TRUE, rec |-> EmptyDict ]
Returned(d) == [ exc |-> FALSE, rec |-> d ]

\* mutant: the length of a configuration payload is not looked at
_raw_to_data_anyLength(raw, hex_command, units) ==
    IF IsNone(raw) \/ Len(Get(raw)) = 0 THEN Returned(EmptyDict)
    ELSE IF hex_command = SensorValuesCmd
         THEN IF Len(Get(raw)) # SensorLen THEN Raised
              ELSE Returned(SensorRecord(Get(raw), units))
    ELSE IF hex_command = DeviceConfigCmd
         THEN Returned(ConfigRecord(Get(raw)))
    ELSE Returned(EmptyDict)

_raw_to_data(raw, hex_command, units) ==
    IF IsNone(raw) \/ Len(Get(raw)) = 0 THEN Returned(EmptyDict)
    ELSE IF hex_command = SensorValuesCmd
         THEN IF Len(Get(raw)) # SensorLen THEN Raised
              ELSE Returned(SensorRecord(Get(raw), units))
    ELSE IF hex_command = DeviceConfigCmd
         THEN IF Len(Get(raw)) # ConfigLen THEN Raised
              ELSE Returned(ConfigRecord(Get(raw)))
    ELSE Returned(EmptyDict)

\* ------------------------------------------------------------------------
\* What the transport can hand back
\* ------------------------------------------------------------------------

Sentinel == << 127, 255, 255 >>
\* channel 1 at 23.5 C / 37 %, the other channels without a sensor
Payload1 == << 0, 235, 37 >>
            \o Sentinel \o Sentinel \o Sentinel \o Sentinel
            \o Sentinel \o Sentinel \o Sentinel
\* a 27-byte configuration payload whose unit byte is u
ConfigPayload(u) == Repeat(0, UnitIndex) \o << u >> \o Repeat(0, ConfigLen - UnitIndex - 1)
\* a full packet: lead byte, payload, terminator, residue
Packet(payload) ==
    LET head == << LeadByte >> \o payload \o << Term0, Term1 >>
    IN  head \o Repeat(255, PacketLen - Len(head))

TransportBuffers ==
    { Packet(Payload1),                      \* sensor values
      Packet(ConfigPayload(1)),              \* configuration, Fahrenheit
      Packet(ConfigPayload(0)),              \* configuration, Celsius
      Packet(<< >>),                         \* a frame with no payload
      << 0 >> \o Repeat(255, PacketLen - 1), \* wrong first byte
      << LeadByte >> \o Repeat(0, PacketLen - 1),   \* no terminator
      << LeadByte, 0, Term0, Term1 >>,       \* short read
      << >> }                                \* empty read

\* device.read: a buffer, or an exception ("error")
ReadOutcome == [ exc : {FALSE}, buf : TransportBuffers ] \cup { [ exc |-> TRUE, buf |-> << >> ] }

\* ------------------------------------------------------------------------
\* State
\* ------------------------------------------------------------------------

\* the threads that use the station object: the main thread, which also
\* consumes the generator returned by genLoopPackets, and the thread started
\* for the clock synchronisation
Threads == { "main", "sync" }
Modes == { "Linux", "simulation" }

VARIABLES
    max_tries,          \* self.max_tries
    wait_before_retry,  \* self.wait_before_retry, in seconds
    loop_interval,      \* self.loop_interval, in seconds
    mode,               \* self.mode
    device,             \* self.device: "None", "found", "claimed" or "disposed"
    units,              \* self.units
    lock,               \* self.lock: "free" or the thread holding it
    pc,                 \* where each thread is
    nberrors,           \* the local nberrors of each thread's get_current_values
    res,                \* how each thread's last call ended
    hist,               \* per thread, what its current call did so far
    genpc,              \* the generator: "created", "running", "suspended", "terminated"
    elapsed,            \* time.time() - lstart when the generator last yielded or slept
    sleepArg,           \* the argument of the generator's last time.sleep, if any
    loop_packet,        \* what the generator yielded last, if anything
    inbuf,              \* a buffer returned by device.read
    outframe,           \* what _read_usb made of inbuf
    called,             \* whether the function under study has been applied
    packet_size,        \* self.packet_size
    input,              \* the arguments of a function studied on its own
    output,             \* what it returned
    lastConfig,         \* the payload of the last configuration read that was
                        \* decoded, if any
    clock               \* syncTimeFn: the cycles it completed and the SyncTime
                        \* frames it had the station write

vars == << max_tries, wait_before_retry, loop_interval, mode, device, units,
           lock, pc, nberrors, res, hist, genpc, elapsed, sleepArg,
           loop_packet, inbuf, outframe, called, packet_size, input, output,
           lastConfig, clock >>
readvars == << inbuf, outframe, called, packet_size, input, output, clock >>
\* what no action of the station object changes
fixed == << max_tries, wait_before_retry, loop_interval, mode, readvars >>
genvars == << genpc, elapsed, sleepArg, loop_packet >>

\* results of a call: nothing yet, a returned value (None or a dict), an
\* exception that reached the caller
NoRes == [ k |-> "init", val |-> NoneVal ]
RetNone == [ k |-> "returned", val |-> NoneVal ]
RetDict(d) == [ k |-> "returned", val |-> Some(d) ]
Exc == [ k |-> "raised", val |-> NoneVal ]

\* What a call did so far: the method; the request writes issued; the
\* successful writes not yet followed by a read attempt; whether every write
\* succeeded and every read returned a buffer that was rejected; whether every
\* write and read was made holding the lock; the last thing done to the
\* device handle; what the retry handler did since the last attempt failed
\* ("fail", then "close", "open", "wait"), nothing once a request is written
\* again; for getDeviceConfig, what went wrong on the transport, if anything.
NewHist(m) == [ meth |-> m, wr |-> 0, unread |-> 0, malformedOnly |-> TRUE,
                held |-> TRUE, lastDev |-> "none", since |-> << >>,
                fault |-> "none" ]

\* WS3000.__init__: the configuration, then open_port, then the lock.  A
\* station object exists only if open_port returned; it returns also when the
\* interface could not be claimed, after closePort.
InitStation ==
    /\ max_tries \in 0 .. MaxTries
    /\ mode \in Modes
    /\ device \in { "claimed", IF mode = "simulation" THEN "found" ELSE "disposed" }
    /\ units = "Celsius"
    /\ lastConfig = NoneVal
    /\ clock = [ cycles |-> 0, written |-> 0 ]
    /\ lock = "free"
    /\ pc = [ t \in Threads |-> "idle" ]
    /\ nberrors = [ t \in Threads |-> 0 ]
    /\ res = [ t \in Threads |-> NoRes ]
    /\ hist = [ t \in Threads |-> NewHist("none") ]
    /\ genpc = "created"
    /\ elapsed = 0
    /\ sleepArg = NoneVal
    /\ loop_packet = NoRes
    /\ inbuf = << >>
    /\ outframe = NoneVal
    /\ called = FALSE
    /\ packet_size = DefaultPacketSize
    /\ input = << >>
    /\ output = << >>

\* ------------------------------------------------------------------------
\* The transport
\* ------------------------------------------------------------------------

\* device.write / device.read on self.device: None has no such attribute
\* (AttributeError); a device may answer or fail with a USBError
CanSucceed == device # "None"

ThreadInGenerator(t) == t = "main" /\ genpc = "running"

\* the record of a request write and of a read attempt by thread t
AfterWrite(t, ok) ==
    [ hist[t] EXCEPT !.wr = @ + 1,
                     !.unread = @ + (IF ok THEN 1 ELSE 0),
                     !.malformedOnly = @ /\ ok,
                     !.held = @ /\ lock = t,
                     !.since = IF ok THEN << >> ELSE << "fail" >> ]
AfterRead(t, rejected) ==
    [ hist[t] EXCEPT !.unread = @ - 1,
                     !.malformedOnly = @ /\ rejected,
                     !.held = @ /\ lock = t ]


\* ------------------------------------------------------------------------
\* WS3000.open_port and WS3000.closePort
\* ------------------------------------------------------------------------

\* The ways open_port can go: "ok"; "notfound" (_find_device returns None and
\* self.device.reset() raises AttributeError); "usberror" (reset,
\* set_configuration, ... raise a USBError); "claimfail" (claim_interface
\* raises a USBError, which is caught: closePort, log, normal return).
OpenOutcomes == { "ok", "notfound", "usberror", "claimfail" }

\* closePort disposes of the resources of self.device (falling back to a
\* reset); it does nothing at all in mode 'simulation'
closePort_device(d) == IF mode = "simulation" THEN d ELSE "disposed"
\* dispose_resources(None) fails with an AttributeError, which closePort
\* does not catch
closePort_raises == mode # "simulation" /\ device = "None"

open_port_device(o) ==
    CASE o = "ok" -> "claimed"
      [] o = "notfound" -> "None"
      [] o = "usberror" -> "found"
      [] o = "claimfail" -> closePort_device("found")

open_port_raises(o) == o \in { "notfound", "usberror" }

\* the last thing done to the device handle by open_port
open_port_lastDev(o) ==
    IF o = "claimfail" /\ mode # "simulation" THEN "close" ELSE "open"

\* ------------------------------------------------------------------------
\* WS3000.get_current_values
\* ------------------------------------------------------------------------

\* mutant: the lock is taken without waiting for it to be free
LockFree_ignored == TRUE
\* threading.Lock: acquire blocks until the lock is free
LockFree == lock = "free"

\* mutant: the error counter survives from one call to the next
InitialErrors_kept(t) == nberrors[t]
\* nberrors = 0 at the start of every call
InitialErrors(t) == 0

\* the call ends, by return or by exception, leaving the with-block; when it
\* was made by the generator, the generator yields the value or dies
\* mutant: an exception leaves the lock with the thread that held it
LockAfterRaise_kept(t) == t
\* the with statement releases the lock also when its body raises
LockAfterRaise(t) == "free"

GcvEnds(t, r) ==
    /\ lock' = IF r.k = "raised" THEN LockAfterRaise(t) ELSE "free"
    /\ pc' = [ pc EXCEPT ![t] = "done" ]
    /\ res' = [ res EXCEPT ![t] = r ]
    /\ IF ThreadInGenerator(t)
       THEN IF r.k = "raised"
            THEN genpc' = "terminated" /\ UNCHANGED loop_packet
            ELSE genpc' = "suspended" /\ loop_packet' = r
       ELSE UNCHANGED << genpc, loop_packet >>

\* mutant: the handler goes straight to the wait
HandlerStart_waitOnly == "gcv_sleep"
\* the first statement of the except clause: self.closePort()
HandlerStart == "gcv_close"

\* a thread calls get_current_values directly
CallGcv(t) ==
    /\ pc[t] = "idle"
    /\ pc' = [ pc EXCEPT ![t] = "gcv_lock" ]
    /\ hist' = [ hist EXCEPT ![t] = NewHist("gcv") ]
    /\ res' = [ res EXCEPT ![t] = NoRes ]
    /\ UNCHANGED << fixed, device, units, lastConfig, lock, nberrors, genvars >>

\* with self.lock: nberrors = 0
GcvAcquire(t) ==
    /\ pc[t] = "gcv_lock"
    /\ LockFree
    /\ lock' = t
    /\ nberrors' = [ nberrors EXCEPT ![t] = InitialErrors(t) ]
    /\ pc' = [ pc EXCEPT ![t] = "gcv_loop" ]
    /\ UNCHANGED << fixed, device, units, lastConfig, res, hist, genvars >>

\* while nberrors < self.max_tries: ... ; after the loop the method returns None
GcvLoop(t) ==
    /\ pc[t] = "gcv_loop"
    /\ IF nberrors[t] < max_tries
       THEN /\ pc' = [ pc EXCEPT ![t] = "gcv_write" ]
            /\ UNCHANGED << lock, res, genpc, loop_packet >>
       ELSE GcvEnds(t, RetNone)
    /\ UNCHANGED << fixed, device, units, lastConfig, nberrors, hist, elapsed, sleepArg >>

\* _get_raw_data: self._write_usb(sequence); a failure is caught there, None
\* is returned and get_current_values raises into its own handler
GcvWrite(t) ==
    /\ pc[t] = "gcv_write"
    /\ \E ok \in { b \in BOOLEAN : b => CanSucceed } :
        /\ hist' = [ hist EXCEPT ![t] = AfterWrite(t, ok) ]
        /\ IF ok
           THEN /\ pc' = [ pc EXCEPT ![t] = "gcv_read" ]
                /\ UNCHANGED nberrors
           ELSE /\ pc' = [ pc EXCEPT ![t] = HandlerStart ]
                /\ nberrors' = [ nberrors EXCEPT ![t] = @ + 1 ]
    /\ UNCHANGED << fixed, device, units, lastConfig, lock, res, genvars >>

\* _get_raw_data: buf = self._read_usb(); then, in get_current_values, the
\* test of raw_data, _raw_to_data and the return of the record
GcvRead(t) ==
    /\ pc[t] = "gcv_read"
    /\ \E o \in { r \in ReadOutcome : ~r.exc => CanSucceed } :
        LET raw_data == IF o.exc THEN NoneVal ELSE _read_usb(o.buf)
            empty == IsNone(raw_data) \/ Len(Get(raw_data)) = 0
            formatted_data == _raw_to_data(raw_data, SensorValuesCmd, units)
            failed == empty \/ formatted_data.exc
        IN  /\ hist' = [ hist EXCEPT ![t] =
                           [ AfterRead(t, failed /\ ~o.exc) EXCEPT
                               !.since = IF failed THEN << "fail" >> ELSE << >> ] ]
            /\ IF failed
               THEN /\ pc' = [ pc EXCEPT ![t] = HandlerStart ]
                    /\ nberrors' = [ nberrors EXCEPT ![t] = @ + 1 ]
                    /\ UNCHANGED << lock, res, genpc, loop_packet >>
               ELSE /\ GcvEnds(t, RetDict(formatted_data.rec))
                    /\ UNCHANGED nberrors
    /\ UNCHANGED << fixed, device, units, lastConfig, elapsed, sleepArg >>

\* the handler: self.closePort()
GcvClose(t) ==
    /\ pc[t] = "gcv_close"
    /\ IF closePort_raises
       THEN /\ GcvEnds(t, Exc)
            /\ UNCHANGED << device, hist >>
       ELSE /\ device' = closePort_device(device)
            /\ hist' = [ hist EXCEPT ![t].lastDev =
                                         IF mode = "simulation" THEN @ ELSE "close",
                                     ![t].since = Append(@, "close") ]
            /\ pc' = [ pc EXCEPT ![t] = "gcv_open" ]
            /\ UNCHANGED << lock, res, genpc, loop_packet >>
    /\ UNCHANGED << fixed, units, lastConfig, nberrors, elapsed, sleepArg >>

\* the handler: self.open_port()
GcvOpen(t) ==
    /\ pc[t] = "gcv_open"
    /\ \E o \in OpenOutcomes :
        /\ device' = open_port_device(o)
        /\ hist' = [ hist EXCEPT ![t].lastDev = open_port_lastDev(o),
                                 ![t].since = Append(@, "open") ]
        /\ IF open_port_raises(o)
           THEN GcvEnds(t, Exc)
           ELSE /\ pc' = [ pc EXCEPT ![t] = "gcv_sleep" ]
                /\ UNCHANGED << lock, res, genpc, loop_packet >>
    /\ UNCHANGED << fixed, units, lastConfig, nberrors, elapsed, sleepArg >>

\* the handler: time.sleep(self.wait_before_retry), then the loop test
GcvSleep(t) ==
    /\ pc[t] = "gcv_sleep"
    /\ elapsed' = IF ThreadInGenerator(t) THEN elapsed + wait_before_retry ELSE elapsed
    /\ pc' = [ pc EXCEPT ![t] = "gcv_loop" ]
    /\ hist' = [ hist EXCEPT ![t].since = Append(@, "wait") ]
    /\ UNCHANGED << fixed, device, units, lastConfig, lock, nberrors, res,
                    genpc, sleepArg, loop_packet >>

\* ------------------------------------------------------------------------
\* WS3000.genLoopPackets, consumed by the main thread
\* ------------------------------------------------------------------------

\* time.sleep(secs) raises ValueError for a negative argument
SleepRaises(secs) == secs < 0

\* the first next(): lstart = time.time(); self.get_current_values()
GenStart ==
    /\ genpc = "created"
    /\ pc["main"] = "idle"
    /\ genpc' = "running"
    /\ elapsed' = 0
    /\ pc' = [ pc EXCEPT !["main"] = "gcv_lock" ]
    /\ hist' = [ hist EXCEPT !["main"] = NewHist("gcv") ]
    /\ res' = [ res EXCEPT !["main"] = NoRes ]
    /\ UNCHANGED << fixed, device, units, lastConfig, lock, nberrors, sleepArg, loop_packet >>

\* a later next(), d seconds after the yield: lduration = time.time() - lstart;
\* time.sleep(self.loop_interval - lduration); then the next iteration
GenResume ==
    /\ genpc = "suspended"
    /\ pc["main"] = "idle"
    /\ \E d \in 0 .. MaxDelay :
        LET lduration == elapsed + d
            secs == loop_interval - lduration
        IN  /\ sleepArg' = Some(secs)
            /\ IF SleepRaises(secs)
               THEN /\ genpc' = "terminated"
                    /\ UNCHANGED elapsed
                    /\ res' = [ res EXCEPT !["main"] = Exc ]
                    /\ pc' = [ pc EXCEPT !["main"] = "done" ]
                    /\ UNCHANGED hist
               ELSE /\ genpc' = "running"
                    /\ elapsed' = 0
                    /\ pc' = [ pc EXCEPT !["main"] = "gcv_lock" ]
                    /\ hist' = [ hist EXCEPT !["main"] = NewHist("gcv") ]
                    /\ res' = [ res EXCEPT !["main"] = NoRes ]
    /\ UNCHANGED << fixed, device, units, lastConfig, lock, nberrors, loop_packet >>

\* ------------------------------------------------------------------------
\* WS3000.getDeviceConfig
\* ------------------------------------------------------------------------

CallCfg(t) ==
    /\ pc[t] = "idle"
    /\ pc' = [ pc EXCEPT ![t] = "cfg_lock" ]
    /\ hist' = [ hist EXCEPT ![t] = NewHist("cfg") ]
    /\ res' = [ res EXCEPT ![t] = NoRes ]
    /\ UNCHANGED << fixed, device, units, lastConfig, lock, nberrors, genvars >>

CfgAcquire(t) ==
    /\ pc[t] = "cfg_lock"
    /\ LockFree
    /\ lock' = t
    /\ pc' = [ pc EXCEPT ![t] = "cfg_write" ]
    /\ UNCHANGED << fixed, device, units, lastConfig, nberrors, res, hist, genvars >>

\* what getDeviceConfig does with raw: decode, save the units, return data;
\* any exception (also the KeyError of data['type'] on an empty dict) is
\* caught and the method returns None
\* mutant: the units are saved the wrong way round
CfgUnits_swapped(data) == IF data[<< "units", 0 >>] = "F" THEN "Celsius" ELSE "Fahrenheit"
CfgUnits(data) == IF data[<< "units", 0 >>] = "F" THEN "Fahrenheit" ELSE "Celsius"

CfgFinish(t, raw) ==
    LET data == _raw_to_data(raw, DeviceConfigCmd, units)
        caught == data.exc \/ ~HasKey(data.rec, << "type", 0 >>)
    IN  /\ lock' = "free"
        /\ pc' = [ pc EXCEPT ![t] = "done" ]
        /\ IF caught
           THEN /\ res' = [ res EXCEPT ![t] = RetNone ]
                /\ UNCHANGED << units, lastConfig >>
           ELSE /\ res' = [ res EXCEPT ![t] = RetDict(data.rec) ]
                /\ units' = IF data.rec[<< "type", 0 >>] = "device_configuration"
                            THEN CfgUnits(data.rec) ELSE units
                /\ lastConfig' = raw

\* what is wrong with the outcome o of device.read as the answer to a
\* configuration request
ReadFault(o) ==
    IF o.exc THEN "read"
    ELSE IF Len(o.buf) # PacketLen \/ o.buf[1] # LeadByte
            \/ \A i \in 1 .. Len(o.buf) - 1 : ~(o.buf[i] = Term0 /\ o.buf[i + 1] = Term1)
    THEN "frame"
    ELSE IF o.buf[2] = Term0 /\ o.buf[3] = Term1 THEN "empty"
    ELSE IF ~(o.buf[ConfigLen + 2] = Term0 /\ o.buf[ConfigLen + 3] = Term1)
            \/ \E i \in 2 .. ConfigLen : o.buf[i] = Term0 /\ o.buf[i + 1] = Term1
    THEN "length"
    ELSE "none"

CfgWrite(t) ==
    /\ pc[t] = "cfg_write"
    /\ \E ok \in { b \in BOOLEAN : b => CanSucceed } :
        /\ hist' = [ hist EXCEPT ![t] =
                       [ AfterWrite(t, ok) EXCEPT
                           !.fault = IF ok THEN "none" ELSE "write" ] ]
        /\ IF ok
           THEN /\ pc' = [ pc EXCEPT ![t] = "cfg_read" ]
                /\ UNCHANGED << lock, res, units, lastConfig >>
           ELSE CfgFinish(t, NoneVal)
    /\ UNCHANGED << fixed, device, nberrors, genvars >>

CfgRead(t) ==
    /\ pc[t] = "cfg_read"
    /\ \E o \in { r \in ReadOutcome : ~r.exc => CanSucceed } :
        /\ hist' = [ hist EXCEPT ![t] =
                       [ AfterRead(t, FALSE) EXCEPT !.fault = ReadFault(o) ] ]
        /\ CfgFinish(t, IF o.exc THEN NoneVal ELSE _read_usb(o.buf))
    /\ UNCHANGED << fixed, device, nberrors, genvars >>

\* ------------------------------------------------------------------------
\* WS3000.synTime
\* ------------------------------------------------------------------------

CallSyn(t) ==
    /\ pc[t] = "idle"
    /\ pc' = [ pc EXCEPT ![t] = "syn_lock" ]
    /\ hist' = [ hist EXCEPT ![t] = NewHist("syn") ]
    /\ res' = [ res EXCEPT ![t] = NoRes ]
    /\ UNCHANGED << fixed, device, units, lastConfig, lock, nberrors, genvars >>

\* struct.pack: format "h" takes -32768 .. 32767 and gives two bytes, high
\* byte first; format "B" takes 0 .. 255; any other value raises
\* struct.error, for which << >> stands here
PackH(v) ==
    IF v < -32768 \/ v > 32767 THEN << >>
    ELSE LET u == IF v < 0 THEN v + 65536 ELSE v
         IN  << << u \div 256, u % 256 >> >>
PackB(v) == IF v < 0 \/ v > 255 THEN << >> ELSE << << v >> >>
\* struct.pack('>hBBBBBB', ...) of the seven fields
Pack_hBBBBBB(f) ==
    LET parts == << PackH(f[1]), PackB(f[2]), PackB(f[3]), PackB(f[4]),
                    PackB(f[5]), PackB(f[6]), PackB(f[7]) >>
    IN  IF \E i \in 1 .. 7 : parts[i] = << >> THEN NoneVal
        ELSE Some(parts[1][1] \o parts[2][1] \o parts[3][1] \o parts[4][1]
                  \o parts[5][1] \o parts[6][1] \o parts[7][1])

\* the sequence synTime builds from the local time lnow (year, month, day,
\* hour, minute, second) and the UTC offset in hours; None when pack raises
synTime_sequence(lnow, ltimezone) ==
    LET lpackedtime == Pack_hBBBBBB(lnow \o << ltimezone >>)
    IN  IF IsNone(lpackedtime) THEN NoneVal
        ELSE Some(<< LeadByte, SyncTimeCmd >> \o Get(lpackedtime) \o << Term0, Term1 >>)

\* the local times and the UTC offsets of the machine the program runs on
SampleNow == << 2024, 3, 11, 9, 5, 12 >>
SampleOffsets == { -5, 2 }

SynAcquire(t) ==
    /\ pc[t] = "syn_lock"
    /\ LockFree
    /\ lock' = t
    /\ pc' = [ pc EXCEPT ![t] = "syn_write" ]
    /\ UNCHANGED << fixed, device, units, lastConfig, nberrors, res, hist, genvars >>

\* the sequence is built before the try; then self._write_usb(sequence), any
\* exception caught; the method ends there
SynWrite(t) ==
    /\ pc[t] = "syn_write"
    /\ \E ltimezone \in SampleOffsets :
        IF IsNone(synTime_sequence(SampleNow, ltimezone))
        THEN /\ res' = [ res EXCEPT ![t] = Exc ]
             /\ lock' = LockAfterRaise(t)
             /\ UNCHANGED hist
        ELSE /\ \E ok \in { b \in BOOLEAN : b => CanSucceed } :
                    hist' = [ hist EXCEPT ![t] = AfterWrite(t, ok) ]
             /\ res' = [ res EXCEPT ![t] = RetNone ]
             /\ lock' = "free"
    /\ pc' = [ pc EXCEPT ![t] = "done" ]
    /\ UNCHANGED << fixed, device, units, lastConfig, nberrors, genvars >>

\* ------------------------------------------------------------------------
\* publish_HAdiscovery: the read of one set of current values
\* ------------------------------------------------------------------------

CallProbe(t) ==
    /\ pc[t] = "idle"
    /\ pc' = [ pc EXCEPT ![t] = "probe_write" ]
    /\ hist' = [ hist EXCEPT ![t] = NewHist("probe") ]
    /\ res' = [ res EXCEPT ![t] = NoRes ]
    /\ UNCHANGED << fixed, device, units, lastConfig, lock, nberrors, genvars >>

\* data2 = _c._raw_to_data(raw, command): an exception reaches the caller
ProbeFinish(t, raw) ==
    LET data2 == _raw_to_data(raw, SensorValuesCmd, units)
    IN  /\ pc' = [ pc EXCEPT ![t] = "done" ]
        /\ res' = [ res EXCEPT ![t] = IF data2.exc THEN Exc ELSE RetDict(data2.rec) ]

ProbeWrite(t) ==
    /\ pc[t] = "probe_write"
    /\ \E ok \in { b \in BOOLEAN : b => CanSucceed } :
        /\ hist' = [ hist EXCEPT ![t] = AfterWrite(t, ok) ]
        /\ IF ok
           THEN /\ pc' = [ pc EXCEPT ![t] = "probe_read" ]
                /\ UNCHANGED res
           ELSE ProbeFinish(t, NoneVal)
    /\ UNCHANGED << fixed, device, units, lastConfig, lock, nberrors, genvars >>

ProbeRead(t) ==
    /\ pc[t] = "probe_read"
    /\ \E o \in { r \in ReadOutcome : ~r.exc => CanSucceed } :
        /\ hist' = [ hist EXCEPT ![t] = AfterRead(t, FALSE) ]
        /\ ProbeFinish(t, IF o.exc THEN NoneVal ELSE _read_usb(o.buf))
    /\ UNCHANGED << fixed, device, units, lastConfig, lock, nberrors, genvars >>

\* ------------------------------------------------------------------------
\* The station object under its client threads
\* ------------------------------------------------------------------------

\* the caller is done with the outcome of its call
Forget(t) ==
    /\ pc[t] = "done"
    /\ pc' = [ pc EXCEPT ![t] = "idle" ]
    /\ res' = [ res EXCEPT ![t] = NoRes ]
    /\ hist' = [ hist EXCEPT ![t] = NewHist("none") ]
    /\ UNCHANGED << fixed, device, units, lastConfig, lock, nberrors, genvars >>

\* Two threads, each calling get_current_values, getDeviceConfig, synTime and
\* the probe of publish_HAdiscovery in any order.  The generator is not
\* consumed and time plays no part.
Init ==
    /\ InitStation
    /\ wait_before_retry = MaxWait
    /\ loop_interval = MaxInterval

Next ==
    \E t \in Threads :
        \/ CallGcv(t) \/ GcvAcquire(t) \/ GcvLoop(t) \/ GcvWrite(t) \/ GcvRead(t)
        \/ GcvClose(t) \/ GcvOpen(t) \/ GcvSleep(t)
        \/ CallCfg(t) \/ CfgAcquire(t) \/ CfgWrite(t) \/ CfgRead(t)
        \/ CallSyn(t) \/ SynAcquire(t) \/ SynWrite(t)
        \/ CallProbe(t) \/ ProbeWrite(t) \/ ProbeRead(t)
        \/ Forget(t)

Spec == Init /\ [][Next]_vars

\* The main thread consuming the generator of genLoopPackets, with the time
\* spent in the retries and between a yield and the next request.
InitLoop ==
    /\ InitStation
    /\ wait_before_retry \in 0 .. MaxWait
    /\ loop_interval \in 0 .. MaxInterval

NextLoop ==
    \/ GenStart
    \/ GenResume
    \/ GcvAcquire("main") \/ GcvLoop("main") \/ GcvWrite("main") \/ GcvRead("main")
    \/ GcvClose("main") \/ GcvOpen("main") \/ GcvSleep("main")
    \/ Forget("main")

SpecLoop == InitLoop /\ [][NextLoop]_vars

\* ------------------------------------------------------------------------
\* _read_usb on its own
\* ------------------------------------------------------------------------

\* the bytes that matter to _read_usb, and one that does not
Alphabet == { LeadByte, Term0, Term1, 0 }

RECURSIVE SeqsUpTo(_, _)
SeqsUpTo(S, n) ==
    IF n = 0 THEN { << >> }
    ELSE LET shorter == SeqsUpTo(S, n - 1)
         IN  shorter \cup { s \o << x >> : s \in { q \in shorter : Len(q) = n - 1 }, x \in S }

\* p followed by the byte f up to n bytes in all
Pad(p, f, n) == SubSeq(p \o Repeat(f, n), 1, n)
\* b with a terminator pair written at indices m and m + 1 for every m in M
\* that leaves room for it
Overlay(b, M) ==
    [ i \in 1 .. Len(b) |->
        IF \E m \in M : m + 1 < Len(b) /\ i = m + 1 THEN Term0
        ELSE IF \E m \in M : m + 1 < Len(b) /\ i = m + 2 THEN Term1
        ELSE b[i] ]

\* lengths a read can have: nothing, one byte short, a full packet, one more
ReadLens == { 0, PacketLen - 1, PacketLen, PacketLen + 1 }
\* where further terminator pairs are written: after the prefix, at the very end
PairPositions == { MaxPrefix, PacketLen - 2 }

ReadInputs ==
    { Overlay(Pad(p, f, n), M) :
        p \in SeqsUpTo(Alphabet, MaxPrefix), f \in Alphabet, n \in ReadLens,
        M \in SUBSET PairPositions }

\* the packet sizes a station is configured with
PacketSizes == { PacketLen - 1, PacketLen, PacketLen + 1 }

\* device.read(self.IN_ep, self.packet_size) returns at most packet_size bytes
InitRead ==
    /\ packet_size \in PacketSizes
    /\ inbuf \in { b \in ReadInputs : Len(b) <= packet_size }
    /\ outframe = NoneVal
    /\ called = FALSE
    /\ input = << >>
    /\ output = << >>
    /\ max_tries = MaxTries
    /\ wait_before_retry = MaxWait
    /\ loop_interval = MaxInterval
    /\ mode = "Linux"
    /\ device = "claimed"
    /\ units = "Celsius"
    /\ lastConfig = NoneVal
    /\ clock = [ cycles |-> 0, written |-> 0 ]
    /\ lock = "free"
    /\ pc = [ t \in Threads |-> "idle" ]
    /\ nberrors = [ t \in Threads |-> 0 ]
    /\ res = [ t \in Threads |-> NoRes ]
    /\ hist = [ t \in Threads |-> NewHist("none") ]
    /\ genpc = "created"
    /\ elapsed = 0
    /\ sleepArg = NoneVal
    /\ loop_packet = NoRes

ReadUsb ==
    /\ ~called
    /\ outframe' = _read_usb(inbuf)
    /\ called' = TRUE
    /\ UNCHANGED << max_tries, wait_before_retry, loop_interval, mode, inbuf,
                    packet_size, input, output, lastConfig, clock,
                    device, units, lock, pc, nberrors, res, hist, genvars >>

SpecRead == InitRead /\ [][ReadUsb]_vars

\* ------------------------------------------------------------------------
\* Functions studied on their own
\* ------------------------------------------------------------------------

\* a station object nobody is using, as __init__ leaves it
AtRest ==
    /\ max_tries = MaxTries
    /\ wait_before_retry = MaxWait
    /\ loop_interval = MaxInterval
    /\ mode = "Linux"
    /\ packet_size = DefaultPacketSize
    /\ device = "claimed"
    /\ units = "Celsius"
    /\ lastConfig = NoneVal
    /\ clock = [ cycles |-> 0, written |-> 0 ]
    /\ lock = "free"
    /\ pc = [ t \in Threads |-> "idle" ]
    /\ nberrors = [ t \in Threads |-> 0 ]
    /\ res = [ t \in Threads |-> NoRes ]
    /\ hist = [ t \in Threads |-> NewHist("none") ]
    /\ genpc = "created"
    /\ elapsed = 0
    /\ sleepArg = NoneVal
    /\ loop_packet = NoRes
    /\ inbuf = << >>
    /\ outframe = NoneVal
atrest == << max_tries, wait_before_retry, loop_interval, mode, packet_size,
             device, units, lastConfig, lock, pc, nberrors, res, hist,
             genvars, inbuf, outframe, clock >>

UnitNames == { "Celsius", "Fahrenheit" }

\* One exchange's response path: _read_usb, then _raw_to_data on what it
\* returned (None when _read_usb raised, as _get_raw_data returns then)
Response(buf, hex_command, u) ==
    LET frame == _read_usb(buf)
    IN  [ frame |-> frame, data |-> _raw_to_data(frame, hex_command, u) ]

\* the start of a response: first byte, payload, terminator
ResiduePayloads ==
    { Payload1, ConfigPayload(0), ConfigPayload(1), << >>, << Term0 >>,
      << Term1, Term0, 0 >> }
Heads ==
    { << lead >> \o p \o << Term0, Term1 >> :
        lead \in { LeadByte, 0 }, p \in ResiduePayloads }
\* what an earlier, longer message left behind: n bytes f, perhaps with a
\* terminator pair of its own in front or at the end
Residues(n) ==
    { Overlay(Repeat(f, n), M) :
        f \in { 0, 255, Term0, Term1 }, M \in { {}, { 0 }, { n - 2 } } }
ResidueBuffers == UNION { { h \o r : r \in Residues(PacketLen - Len(h)) } : h \in Heads }

InitResidue ==
    /\ AtRest
    /\ called = FALSE
    /\ input \in [ a : ResidueBuffers, b : ResidueBuffers,
                   hex_command : { SensorValuesCmd, DeviceConfigCmd },
                   units : UnitNames ]
    /\ output = << >>

TwoResponses ==
    /\ ~called
    /\ output' = << Response(input.a, input.hex_command, input.units),
                    Response(input.b, input.hex_command, input.units) >>
    /\ called' = TRUE
    /\ UNCHANGED << atrest, input >>

SpecResidue == InitResidue /\ [][TwoResponses]_vars

\* _raw_to_data on sensor payloads: channel ch holds the triplet tr, every
\* other channel the triplet bg
HumBytes == { 0, 40, 100, 101, 254, 255 }
TripletSamples == { tb \o << h >> : tb \in TempBytes, h \in HumBytes }
Channels == 1 .. (SensorLen \div 3)
SensorPayload(ch, tr, bg) ==
    LET t(i) == IF (i - 1) \div 3 = ch - 1 THEN tr[((i - 1) % 3) + 1]
                ELSE bg[((i - 1) % 3) + 1]
    IN  [ i \in 1 .. SensorLen |-> t(i) ]

InitDecode ==
    /\ AtRest
    /\ called = FALSE
    /\ input \in { [ buf |-> SensorPayload(ch, tr, bg), units |-> u ] :
                     ch \in Channels, tr \in TripletSamples,
                     bg \in { Sentinel, << 0, 235, 37 >> }, u \in UnitNames }
    /\ output = << >>

RawToData ==
    /\ ~called
    /\ output' = _raw_to_data(Some(input.buf), SensorValuesCmd, input.units)
    /\ called' = TRUE
    /\ UNCHANGED << atrest, input >>

SpecDecode == InitDecode /\ [][RawToData]_vars

\* the sequence synTime builds, for local times and UTC offsets of whole hours
Years == { 1970, 2024, 2055 }
Offsets == -12 .. 14
InitSyncFrame ==
    /\ AtRest
    /\ called = FALSE
    /\ input \in [ lnow : { << y, mo, d, h, mi, s >> :
                              y \in Years, mo \in { 1, 12 }, d \in { 1, 31 },
                              h \in { 0, 23 }, mi \in { 0, 59 }, s \in { 0, 59 } },
                   ltimezone : Offsets ]
    /\ output = << >>

BuildSequence ==
    /\ ~called
    /\ output' = synTime_sequence(input.lnow, input.ltimezone)
    /\ called' = TRUE
    /\ UNCHANGED << atrest, input >>

SpecSyncFrame == InitSyncFrame /\ [][BuildSequence]_vars

\* ------------------------------------------------------------------------
\* syncTimeFn, next to the main thread's loop
\* ------------------------------------------------------------------------

\* what a WS3000 object has a method for
WS3000_methods ==
    { "open_port", "closePort", "get_current_values", "genLoopPackets",
      "getDeviceConfig", "synTime", "hardware_name", "_find_device",
      "_write_usb", "_read_usb", "_get_cmd_name", "_get_raw_data",
      "_raw_to_data" }

\* One turn of the while loop: _station.syncTime() inside try / except: pass,
\* then the sleep until the next wakeup.  Looking up a name the object does
\* not have raises AttributeError, which the bare except swallows; a call
\* that is made waits for the lock, builds the sequence and writes it.
SyncTimeFnCycle ==
    /\ clock.cycles < MaxCycles
    /\ IF "syncTime" \in WS3000_methods
       THEN /\ LockFree
            /\ \E ltimezone \in SampleOffsets :
                clock' = [ cycles |-> clock.cycles + 1,
                           written |-> clock.written +
                               IF IsNone(synTime_sequence(SampleNow, ltimezone))
                               THEN 0 ELSE 1 ]
       ELSE clock' = [ clock EXCEPT !.cycles = @ + 1 ]
    /\ UNCHANGED << max_tries, wait_before_retry, loop_interval, mode, inbuf,
                    outframe, called, packet_size, input, output, lastConfig,
                    device, units, lock, pc, nberrors, res, hist, genvars >>

NextClock == NextLoop \/ SyncTimeFnCycle

SpecClock == InitLoop /\ [][NextClock]_vars

\* ------------------------------------------------------------------------
\* The two threads when every step that can be taken is taken
\* ------------------------------------------------------------------------

\* inside a with-block every statement returns: the transport calls, the
\* closing and reopening, the backoff wait
BodyStep(t) ==
    \/ GcvLoop(t) \/ GcvWrite(t) \/ GcvRead(t) \/ GcvClose(t) \/ GcvOpen(t)
    \/ GcvSleep(t) \/ CfgWrite(t) \/ CfgRead(t) \/ SynWrite(t)
\* lock.acquire() of a with statement
AcquireStep(t) == GcvAcquire(t) \/ CfgAcquire(t) \/ SynAcquire(t)
\* the thread inside a with-block goes on (one thread at most is inside), and
\* a thread blocked in acquire gets the lock if it is free again and again
Fairness ==
    /\ WF_vars(\E t \in Threads : BodyStep(t))
    /\ \A t \in Threads : SF_vars(AcquireStep(t))

\* the calls that take the lock, made again and again by both threads
NextLive ==
    \E t \in Threads :
        \/ CallGcv(t) \/ GcvAcquire(t) \/ GcvLoop(t) \/ GcvWrite(t) \/ GcvRead(t)
        \/ GcvClose(t) \/ GcvOpen(t) \/ GcvSleep(t)
        \/ CallCfg(t) \/ CfgAcquire(t) \/ CfgWrite(t) \/ CfgRead(t)
        \/ CallSyn(t) \/ SynAcquire(t) \/ SynWrite(t)
        \/ Forget(t)

\* max_tries at its two ends: no attempt at all, and every retry allowed
InitLive ==
    /\ Init
    /\ max_tries \in { 0, MaxTries }

SpecLive == InitLive /\ [][NextLive]_vars /\ Fairness

\* ------------------------------------------------------------------------
\* Properties
\* ------------------------------------------------------------------------

Other(t) == CHOOSE u \in Threads : u # t

\* inside the with-block of get_current_values, getDeviceConfig or synTime
LockedBody == { "gcv_loop", "gcv_write", "gcv_read", "gcv_close", "gcv_open",
                "gcv_sleep", "cfg_write", "cfg_read", "syn_write" }
\* about to write, read, close or open the device inside one of the three
DeviceStep == { "gcv_write", "gcv_read", "gcv_close", "gcv_open",
                "cfg_write", "cfg_read", "syn_write" }
\* has written its request and not yet read the answer
BetweenWriteAndRead == { "gcv_read", "cfg_read" }

\* C1: at most one thread is inside the locked body of get_current_values,
\* getDeviceConfig or synTime, and it is the holder of the lock; while a call
\* is between its write and its read no other call of the three is in its
\* locked body, so no write or read of another call falls in between.
C1_MutualExclusion ==
    /\ Cardinality({ t \in Threads : pc[t] \in LockedBody }) <= 1
    /\ \A t \in Threads : pc[t] \in LockedBody <=> lock = t
    /\ \A t \in Threads :
          pc[t] \in BetweenWriteAndRead => pc[Other(t)] \notin LockedBody

\* a call is between its write and its read while the other thread waits for
\* the lock in synTime
C1_Witness ==
    /\ pc["main"] = "gcv_read"
    /\ pc["sync"] = "syn_lock"

\* C2: a call of get_current_values that returned, in which every write
\* succeeded and every read gave a buffer that was rejected, issued exactly
\* max_tries request writes and returned None.
C2_ExactlyMaxTries ==
    \A t \in Threads :
        ( /\ pc[t] = "done"
          /\ hist[t].meth = "gcv"
          /\ res[t].k = "returned"
          /\ hist[t].malformedOnly )
        => ( hist[t].wr = max_tries /\ res[t] = RetNone )

\* a call with two rejected answers ended after two writes
C2_Witness ==
    /\ max_tries = 2
    /\ pc["main"] = "done"
    /\ hist["main"].meth = "gcv"
    /\ hist["main"].malformedOnly
    /\ hist["main"].wr = 2
    /\ res["main"] = RetNone

\* C3: get_current_values never raises to its caller.
C3_NeverRaises ==
    \A t \in Threads : hist[t].meth = "gcv" => res[t].k # "raised"

\* C4: the generator does not terminate because of a failed cycle: it is
\* never terminated after yielding the failed result of a cycle whose retries
\* took longer than loop_interval.
C4_SurvivesFailedCycle ==
    ~( /\ genpc = "terminated"
       /\ loop_packet = RetNone
       /\ max_tries >= 1
       /\ elapsed > loop_interval )

\* C5: the generator never asks time.sleep for a negative duration.
C5_SleepNotNegative == IsNone(sleepArg) \/ Get(sleepArg) >= 0

\* C6: when get_current_values gives up after failed attempts, the last thing
\* it did to the device handle is a close.
C6_LeftClosed ==
    \A t \in Threads :
        ( /\ pc[t] = "done"
          /\ hist[t].meth = "gcv"
          /\ res[t] = RetNone
          /\ hist[t].wr >= 1 )
        => hist[t].lastDev = "close"

\* C7: from the first request write of a get_current_values call until the
\* call ends, the other thread takes no step that writes to, reads from,
\* closes or opens the device inside get_current_values, getDeviceConfig or
\* synTime.
InExchange(t) ==
    /\ hist[t].meth = "gcv"
    /\ hist[t].wr >= 1
    /\ pc[t] \in LockedBody
C7_RetryUnderLock ==
    [][ \A t \in Threads :
          ( InExchange(t) /\ pc[Other(t)] \in DeviceStep )
          => pc'[Other(t)] = pc[Other(t)] ]_vars

\* a call is reopening the device for a retry while the other thread waits
\* for the lock in getDeviceConfig
C7_Witness ==
    /\ pc["main"] = "gcv_open"
    /\ hist["main"].wr >= 1
    /\ pc["sync"] = "cfg_lock"

C9_FullExchange ==
    \A t \in Threads : pc[t] = "done" => hist[t].unread = 0

\* C10: _read_usb returns the bytes at indices 1..k-1 when the buffer has 64
\* bytes, byte 0 is 0x7b and k is the smallest index of a 0x40 0x7d pair, and
\* None in every other case.
PairIndices(b) ==
    { k \in 0 .. Len(b) - 2 : b[k + 1] = Term0 /\ b[k + 2] = Term1 }
Smallest(S) == CHOOSE k \in S : \A j \in S : k <= j
C10_ReadUsbFrame ==
    called =>
        IF Len(inbuf) = 64 /\ inbuf[1] = 123 /\ PairIndices(inbuf) # {}
        THEN LET k == Smallest(PairIndices(inbuf))
             IN  /\ ~IsNone(outframe)
                 /\ Len(Get(outframe)) = k - 1
                 /\ \A i \in 1 .. k - 1 : Get(outframe)[i] = inbuf[i + 1]
        ELSE IsNone(outframe)

\* a buffer with two terminator pairs gave a frame of two bytes or more
C10_Witness ==
    /\ called
    /\ Cardinality(PairIndices(inbuf)) = 2
    /\ ~IsNone(outframe)
    /\ Len(Get(outframe)) >= 2

\* C11: a buffer of the configured packet size whose first byte is 0x7b and
\* that holds a 0x40 0x7d pair is accepted, and the bytes between the first
\* byte and the first pair are returned.
C11_ConfiguredSize ==
    ( /\ called
      /\ Len(inbuf) = packet_size
      /\ inbuf[1] = 123
      /\ PairIndices(inbuf) # {} )
    => LET k == Smallest(PairIndices(inbuf))
       IN  /\ ~IsNone(outframe)
           /\ Get(outframe) = SubSeq(inbuf, 2, k)

\* C12: two 64-byte buffers that are equal up to and including the first
\* 0x40 0x7d pair give the same frame and the same decoded record
EqualThroughFirstPair(a, b) ==
    /\ Len(a) = PacketLen
    /\ Len(b) = PacketLen
    /\ PairIndices(a) # {}
    /\ LET k == Smallest(PairIndices(a))
       IN  SubSeq(a, 1, k + 2) = SubSeq(b, 1, k + 2)
C12_ResidueIgnored ==
    (called /\ EqualThroughFirstPair(input.a, input.b))
    => output[1] = output[2]

\* two buffers with the same sensor response and different residues, one of
\* them holding a second terminator pair, were both decoded
C12_Witness ==
    /\ called
    /\ EqualThroughFirstPair(input.a, input.b)
    /\ input.a # input.b
    /\ Cardinality(PairIndices(input.a)) = 2
    /\ ~IsNone(output[1].frame)
    /\ ~output[1].data.exc
    /\ HasKey(output[1].data.rec, << "temperature_CH", 1 >>)

\* C13: for every 24-byte payload and every channel n in 1..8, the triplet
\* 0x7f 0xff 0xff gives neither temperature_CHn nor humidity_CHn, any other
\* triplet with a humidity byte of 101 or more gives temperature_CHn only,
\* and every other triplet gives both, humidity_CHn being the humidity byte
C13_ChannelKeys ==
    called =>
        /\ ~output.exc
        /\ \A n \in 1 .. 8 :
            LET b == input.buf
                t0 == b[3 * n - 2]
                t1 == b[3 * n - 1]
                h == b[3 * n]
                hasT == << "temperature_CH", n >> \in DOMAIN output.rec
                hasH == << "humidity_CH", n >> \in DOMAIN output.rec
            IN  IF t0 = 127 /\ t1 = 255 /\ h = 255 THEN ~hasT /\ ~hasH
                ELSE IF h >= 101 THEN hasT /\ ~hasH
                ELSE hasT /\ hasH /\ output.rec[<< "humidity_CH", n >>] = h

\* a payload with the temperature bytes of the sentinel and a humidity of 40
\* on channel 5 was decoded into both keys of that channel
C13_Witness ==
    /\ called
    /\ Len(input.buf) = 24
    /\ SubSeq(input.buf, 13, 15) = << 127, 255, 40 >>
    /\ << "temperature_CH", 5 >> \in DOMAIN output.rec
    /\ output.rec[<< "humidity_CH", 5 >>] = 40

\* C14 as stated: a channel whose humidity byte is 0xff has no temperature key
C14_NoTemperature ==
    called =>
        \A n \in 1 .. 8 :
            input.buf[3 * n] = 255
            => << "temperature_CH", n >> \notin DOMAIN output.rec

\* C14: a channel whose humidity byte is 0xff has no humidity key, and has a
\* temperature key exactly when its temperature bytes are not 0x7f 0xff
C14_HumidityFF ==
    called =>
        \A n \in 1 .. 8 :
            input.buf[3 * n] = 255
            => /\ << "humidity_CH", n >> \notin DOMAIN output.rec
               /\ << "temperature_CH", n >> \in DOMAIN output.rec
                  <=> ~(input.buf[3 * n - 2] = 127 /\ input.buf[3 * n - 1] = 255)

\* channel 2 held 0x00 0xeb 0xff and was decoded into a temperature alone
C14_Witness ==
    /\ called
    /\ SubSeq(input.buf, 4, 6) = << 0, 235, 255 >>
    /\ << "temperature_CH", 2 >> \in DOMAIN output.rec
    /\ << "humidity_CH", 2 >> \notin DOMAIN output.rec

\* C15: the temperature of a channel is raw / 10 in Celsius, raw being the
\* signed big-endian 16-bit value of its two temperature bytes, and
\* (18 * raw + 3200) / 100, a value of at most two decimals, in Fahrenheit
Decimal(n, den) == Nearest(n < 0, IF n < 0 THEN -n ELSE n, den)
C15_Temperature ==
    called =>
        \A n \in 1 .. 8 :
            << "temperature_CH", n >> \in DOMAIN output.rec
            => LET v == input.buf[3 * n - 2] * 256 + input.buf[3 * n - 1]
                   raw == IF v >= 32768 THEN v - 65536 ELSE v
               IN  output.rec[<< "temperature_CH", n >>] =
                       IF input.units = "Fahrenheit"
                       THEN Decimal(18 * raw + 3200, 100)
                       ELSE Decimal(raw, 10)
\* the part of C15 about Celsius
C15_Celsius ==
    (called /\ input.units = "Celsius") => C15_Temperature

\* C16: the session unit is always the one of the last configuration payload
\* that getDeviceConfig decoded (Fahrenheit when its byte 7 is 1, Celsius
\* otherwise), Celsius when there was none, and every record returned by
\* get_current_values reports that unit and holds temperatures converted
\* for it
LearnedUnit(cfg) ==
    IF cfg = << >> THEN "Celsius"
    ELSE IF cfg[1][8] = 1 THEN "Fahrenheit" ELSE "Celsius"
SensorRecordStep(t) ==
    /\ pc[t] = "gcv_read"
    /\ pc'[t] = "done"
    /\ res'[t].k = "returned"
    /\ res'[t].val # << >>
C16_LearnedUnit ==
    [][ /\ units' = LearnedUnit(lastConfig')
        /\ \A t \in Threads :
            SensorRecordStep(t)
            => LET record == res'[t].val[1]
                   learned == LearnedUnit(lastConfig)
               IN  /\ record[<< "units", 0 >>] = learned
                   /\ record[<< "temperature_CH", 1 >>] =
                        IF learned = "Fahrenheit"
                        THEN FloatAdd(FloatMul(Decimal(235, 10), Float1_8), Float32)
                        ELSE Decimal(235, 10) ]_vars

\* after a configuration read with byte 7 equal to 1, then one with byte 7
\* equal to 0 by the other thread, a sensor record in Fahrenheit is still held
\* by the first thread while the session unit is Celsius again
C16_Witness ==
    /\ lastConfig # << >>
    /\ lastConfig[1][8] = 0
    /\ units = "Celsius"
    /\ \E t \in Threads :
        /\ hist[t].meth = "gcv"
        /\ res[t].k = "returned"
        /\ res[t].val # << >>
        /\ res[t].val[1][<< "units", 0 >>] = "Fahrenheit"

\* C17: a getDeviceConfig call that ends without a record, for a station with
\* max_tries >= 1, has sent its request max_tries times and has closed and
\* reopened the device
C17_ConfigRetried ==
    \A t \in Threads :
        ( /\ pc[t] = "done"
          /\ hist[t].meth = "cfg"
          /\ res[t] = RetNone
          /\ max_tries >= 1 )
        => /\ hist[t].wr = max_tries
           /\ mode = "Linux" => hist[t].lastDev # "none"

\* C18: for every local time and every UTC offset of -12 .. 14 hours synTime
\* has the frame 0x7b 0x30, the year in two bytes, month, day, hour, minute,
\* second, the offset as a signed byte, 0x40 0x7d to write
C18_SyncFrame ==
    called =>
        LET t == input.lnow
            off == input.ltimezone
        IN  output = << << 123, 48, t[1] \div 256, t[1] % 256, t[2], t[3], t[4],
                           t[5], t[6], IF off < 0 THEN off + 256 ELSE off,
                           64, 125 >> >>
\* the part of C18 about offsets that are not negative
C18_EastOfGreenwich ==
    (called /\ input.ltimezone >= 0) => C18_SyncFrame

\* C19: every cycle of syncTimeFn has one SyncTime frame written: after n
\* cycles the task has had n frames written
C19_FramePerCycle == clock.written = clock.cycles

\* C20: open_port does not return normally with an interface that is not
\* claimed: whenever the retry handler is past its open_port call, at the
\* sleep, the device is claimed
C20_ClaimedOnReturn ==
    \A t \in Threads : pc[t] = "gcv_sleep" => device = "claimed"

\* C21: a request write of get_current_values that is not the first of its
\* call comes after closePort, open_port and the backoff wait, in that order,
\* all since the last failed attempt; the first write of a call comes before
\* the call closed or opened anything; and the device handle changes only in
\* a closePort or open_port of a retry handler
RequestWrite(t) ==
    /\ hist[t].meth = "gcv"
    /\ hist'[t].meth = "gcv"
    /\ hist'[t].wr = hist[t].wr + 1
HandlerStep(t) ==
    /\ Len(hist'[t].since) = Len(hist[t].since) + 1
    /\ hist'[t].since[Len(hist'[t].since)] \in { "close", "open" }
C21_RetryOrder ==
    [][ /\ \A t \in Threads :
            RequestWrite(t)
            => hist[t].since = IF hist[t].wr = 0 THEN << >>
                               ELSE << "fail", "close", "open", "wait" >>
        /\ device' # device => \E t \in Threads : HandlerStep(t) ]_vars

\* a call has written its request a second time and waits for the answer
C21_Witness ==
    \E t \in Threads :
        /\ hist[t].meth = "gcv"
        /\ hist[t].wr = 2
        /\ pc[t] = "gcv_read"

\* C22: a record decoded from a sensor payload, which get_current_values
\* returns as it is, has the key units, otherwise only keys temperature_CHn
\* and humidity_CHn with n in 1..8, and humidity_CHn only with temperature_CHn
C22_RecordKeys ==
    called =>
        /\ ~output.exc
        /\ << "units", 0 >> \in DOMAIN output.rec
        /\ \A k \in DOMAIN output.rec :
            \/ k = << "units", 0 >>
            \/ k[1] \in { "temperature_CH", "humidity_CH" } /\ k[2] \in 1 .. 8
        /\ \A n \in 1 .. 8 :
            << "humidity_CH", n >> \in DOMAIN output.rec
            => << "temperature_CH", n >> \in DOMAIN output.rec

\* a record with all eight temperatures and seven humidities was decoded
C22_Witness ==
    /\ called
    /\ Cardinality(DOMAIN output.rec) = 16
    /\ << "humidity_CH", 8 >> \in DOMAIN output.rec

\* C23: every request write and every packet read that get_current_values
\* makes after its retry handler closed and reopened the device is made on a
\* device whose interface is claimed
TransportCall(t) ==
    /\ hist'[t].meth = hist[t].meth
    /\ \/ hist'[t].wr = hist[t].wr + 1
       \/ hist'[t].unread = hist[t].unread - 1
C23_ClaimedIO ==
    [][ \A t \in Threads :
          (TransportCall(t) /\ hist[t].meth = "gcv" /\ nberrors[t] >= 1)
          => device = "claimed" ]_vars

\* C24: a getDeviceConfig call that met a failed write, a failed read, a
\* malformed frame, an empty frame or a payload of the wrong length returns
\* None, without raising, and leaves the session unit as it was
CfgReturns(t) ==
    /\ pc[t] \in { "cfg_write", "cfg_read" }
    /\ pc'[t] = "done"
C24_FailedConfig ==
    [][ \A t \in Threads :
          (CfgReturns(t) /\ hist'[t].fault # "none")
          => /\ res'[t].k = "returned"
             /\ res'[t].val = << >>
             /\ units' = units ]_vars

\* the unit was Fahrenheit when a configuration read got a payload of the
\* wrong length and returned None
C24_Witness ==
    \E t \in Threads :
        /\ pc[t] = "done"
        /\ hist[t].meth = "cfg"
        /\ hist[t].fault = "length"
        /\ res[t] = RetNone
        /\ units = "Fahrenheit"

\* C25: a thread waiting for the lock in get_current_values, getDeviceConfig
\* or synTime eventually holds it, however the call that holds it ends
WaitsForLock(t) == pc[t] \in { "gcv_lock", "cfg_lock", "syn_lock" }
C25_LockReleased ==
    \A t \in Threads : WaitsForLock(t) ~> (lock = t)

\* a thread holds the lock after the other thread's get_current_values left
\* its with-block by an exception
C25_Witness ==
    /\ hist["main"].meth = "gcv"
    /\ lock = "sync"
    /\ pc["main"] = "done"
    /\ res["main"] = Exc

====
